---- MODULE Spec2Model ----
(***************************************************************************)
(* Model of the data-merge and metrics pipeline of the DAT dashboard:      *)
(*   data.py          fetch_price_data, fetch_hourly_data, get_base_prices *)
(*   calculations.py  compute_ytd_returns, compute_relative_returns,       *)
(*                    compute_rolling_correlations                         *)
(*   holdings.py      compute_mnav                                         *)
(*   app.py           the per-dashboard render loop                        *)
(*   scripts/update_prices.py  the offline job that writes the hourly file *)
(*                                                                         *)
(* A pandas DataFrame is a record [cols, tz, rows]: cols is the set of     *)
(* column labels, tz says whether the index is timezone-aware, rows is the *)
(* sequence of rows in positional order, each row [t, v] with t the index  *)
(* label (wall-clock time, an integer) and v the function column -> cell.  *)
(* A cell is a float: a number n/d, NaN, +inf or -inf.  Arithmetic is exact *)
(* (rationals): the rounding of binary floating point is not modelled.     *)
(***************************************************************************)
EXTENDS Integers, Sequences, FiniteSets, TLC

(***************************************************************************)
(* Bounds of the model.                                                    *)
(***************************************************************************)
\* hourly index labels are 1..MaxT
MaxT == 2
\* rows of the stored history plus rows of the fresh hourly fetch
MaxRows == 3
\* daily index labels (sessions) of one fetch_price_data call are 1..MaxDay
MaxDay == 2
\* rows that the stored history and all provider calls of one render hold
AppRows == 3
\* prices handed to compute_ytd_returns are -MaxPrice..MaxPrice
MaxPrice == 2
\* correlation windows are 2..MaxWindow
MaxWindow == 3
\* rows of the price table handed to compute_rolling_correlations
CorrRows == 4
\* missing cells of that table
MaxGaps == 1
\* coin counts, share counts, cash, debt and prices of the valuation are
\* 0..MaxAmount
MaxAmount == 2

(***************************************************************************)
(* Program constants.                                                      *)
(***************************************************************************)
\* get_base_prices: "looking backward up to 10 days"
LookbackDays == 10

(***************************************************************************)
(* Floats.                                                                 *)
(***************************************************************************)
NaN == [kind |-> "nan", n |-> 0, d |-> 1]
PosInf == [kind |-> "inf", n |-> 0, d |-> 1]
NegInf == [kind |-> "-inf", n |-> 0, d |-> 1]
Num(x) == [kind |-> "num", n |-> x, d |-> 1]
IsNaN(x) == x.kind = "nan"

\* Python's None, where a dict has no such key or a result is left out
None == [kind |-> "none", n |-> 0, d |-> 1]

Abs(x) == IF x < 0 THEN -x ELSE x

RECURSIVE Gcd(_, _)
Gcd(a, b) == IF b = 0 THEN a ELSE Gcd(b, a % b)

\* the number n/d (d # 0) in lowest terms with a positive denominator
Ratio(n, d) ==
  LET g == Gcd(Abs(n), Abs(d))
      sgn == IF d < 0 THEN -1 ELSE 1
  IN [kind |-> "num", n |-> sgn * (n \div g), d |-> sgn * (d \div g)]

\* x / y of two numbers or NaN, as numpy divides floats: x/0 is +inf or -inf
\* by the sign of x, 0/0 is NaN, no exception
Divide(x, y) ==
  IF IsNaN(x) \/ IsNaN(y) THEN NaN
  ELSE IF y.n = 0
       THEN (IF x.n > 0 THEN PosInf ELSE IF x.n < 0 THEN NegInf ELSE NaN)
  ELSE Ratio(x.n * y.d, x.d * y.n)

\* x - 1
MinusOne(x) ==
  IF x.kind = "num" THEN Ratio(x.n - x.d, x.d) ELSE x

\* x - y of two floats: NaN propagates, inf - inf is NaN
Sub(x, y) ==
  IF IsNaN(x) \/ IsNaN(y) THEN NaN
  ELSE IF x.kind = "num" /\ y.kind = "num" THEN Ratio(x.n * y.d - y.n * x.d, x.d * y.d)
  ELSE IF x.kind = y.kind THEN NaN
  ELSE IF x.kind = "num" THEN (IF y.kind = "inf" THEN NegInf ELSE PosInf)
  ELSE x

\* x + y and x * y of two numbers
Plus(x, y) == Ratio(x.n * y.d + y.n * x.d, x.d * y.d)
Times(x, y) == Ratio(x.n * y.n, x.d * y.d)

RECURSIVE SumSeq(_)
\* the sum of a sequence of numbers
SumSeq(xs) == IF xs = <<>> THEN Num(0) ELSE Plus(Head(xs), SumSeq(Tail(xs)))

\* the number sgn * sqrt(q), q a number that is not negative
Root(sgn, q) == [kind |-> "root", sgn |-> sgn, n |-> q.n, d |-> q.d]

Sign(x) == IF x.n > 0 THEN 1 ELSE IF x.n < 0 THEN -1 ELSE 0

\* pd.isna(x): None and NaN are missing
IsNA(x) == x.kind \in {"none", "nan"}

(***************************************************************************)
(* Data frames.                                                            *)
(***************************************************************************)
EmptyDF == [cols |-> {}, tz |-> FALSE, rows |-> <<>>]

\* DataFrame.empty: some axis has length 0
IsEmpty(df) == df.rows = <<>> \/ df.cols = {}

Range(s) == {s[i] : i \in DOMAIN s}

Index(df) == {df.rows[i].t : i \in DOMAIN df.rows}

\* df[cols]: the sub-frame of the listed columns
SelectCols(df, cs) ==
  [cols |-> cs, tz |-> df.tz,
   rows |-> [i \in DOMAIN df.rows |->
               [t |-> df.rows[i].t, v |-> [c \in cs |-> df.rows[i].v[c]]]]]

\* df.rename(columns={old: new}) of a one-column frame
Rename(df, old, new) ==
  [cols |-> {new}, tz |-> df.tz,
   rows |-> [i \in DOMAIN df.rows |->
               [t |-> df.rows[i].t, v |-> [c \in {new} |-> df.rows[i].v[old]]]]]

\* index.tz_localize(None): the wall-clock labels are kept, the zone is dropped
TzLocalizeNone(df) == [df EXCEPT !.tz = FALSE]

\* a row widened to the columns cs, NaN where the row has no such column
Widen(row, cs) ==
  [t |-> row.t,
   v |-> [c \in cs |-> IF c \in DOMAIN row.v THEN row.v[c] ELSE NaN]]

\* the positions of df's rows labelled ts
RowsAt(df, ts) == {i \in DOMAIN df.rows : df.rows[i].t = ts}

\* the last row of df labelled ts
LastRowAt(df, ts) ==
  df.rows[CHOOSE i \in RowsAt(df, ts) : \A j \in RowsAt(df, ts) : j <= i]

RECURSIVE ConcatFrames(_)
\* pd.concat(frames): rows in order, columns the union (outer join)
ConcatFrames(frames) ==
  IF frames = <<>> THEN EmptyDF
  ELSE IF Len(frames) = 1 THEN frames[1]
  ELSE LET rest == ConcatFrames(Tail(frames))
           cs == frames[1].cols \cup rest.cols
       IN [cols |-> cs, tz |-> frames[1].tz,
           rows |-> [i \in DOMAIN frames[1].rows |-> Widen(frames[1].rows[i], cs)]
                    \o [i \in DOMAIN rest.rows |-> Widen(rest.rows[i], cs)]]

RECURSIVE FilterRows(_, _, _)
\* the rows at the positions i..Len(rows) for which keep[i] holds, in order
FilterRows(rows, keep, i) ==
  IF i > Len(rows) THEN <<>>
  ELSE (IF keep[i] THEN <<rows[i]>> ELSE <<>>) \o FilterRows(rows, keep, i + 1)

\* the slip keep="first": TRUE at i when an earlier row has the same label
DuplicatedKeepFirst(rows) ==
  [i \in DOMAIN rows |-> \E j \in DOMAIN rows : j < i /\ rows[j].t = rows[i].t]

\* index.duplicated(keep="last"): TRUE at i when a later row has the same label
DuplicatedKeepLast(rows) ==
  [i \in DOMAIN rows |-> \E j \in DOMAIN rows : j > i /\ rows[j].t = rows[i].t]

\* combined[~combined.index.duplicated(keep="last")]
DropDuplicated(df) ==
  LET dup == DuplicatedKeepLast(df.rows)
  IN [df EXCEPT !.rows = FilterRows(df.rows, [i \in DOMAIN df.rows |-> ~dup[i]], 1)]

RECURSIVE InsertSorted(_, _)
InsertSorted(row, rows) ==
  IF rows = <<>> THEN <<row>>
  ELSE IF row.t < rows[1].t THEN <<row>> \o rows
  ELSE <<rows[1]>> \o InsertSorted(row, Tail(rows))

RECURSIVE SortRows(_)
SortRows(rows) ==
  IF rows = <<>> THEN <<>>
  ELSE InsertSorted(rows[Len(rows)], SortRows(SubSeq(rows, 1, Len(rows) - 1)))

\* the slip of leaving the concatenation order
NoSortIndex(df) == df

\* combined.sort_index()
SortIndex(df) == [df EXCEPT !.rows = SortRows(df.rows)]

\* combined[combined.index >= pd.Timestamp(start_date)]
FromStart(df, start) ==
  [df EXCEPT !.rows = FilterRows(df.rows, [i \in DOMAIN df.rows |-> df.rows[i].t >= start], 1)]

(***************************************************************************)
(* The program's state.                                                    *)
(***************************************************************************)
VARIABLES
  pc,            \* position of the run: "start", then one value per step taken
  tickers,       \* config.all_tickers, the requested symbols in order
  start_date,    \* hourly_start, the first index label fetch_hourly_data keeps
  store,         \* hourly_prices.parquet: [exists, df]
  hourly_raw,    \* what the provider's hourly call did: [kind, df]
  combined,      \* fetch_hourly_data's merged frame before the start filter
  hourly_df,     \* the frame fetch_hourly_data returned
  hourly_out,    \* fetch_hourly_data: "none", "returned" or "raised"
  daily_raw,     \* what the provider's bulk daily call did: [kind, df]
  retry_calls,   \* the single-symbol calls fetch_price_data issued, in order
  retry_out,     \* what each of those calls did: symbol -> [kind, df]
  close_df,      \* the frame fetch_price_data returned
  daily_out,     \* fetch_price_data: "none", "returned" or "raised"
  base_date,     \* config.ytd_base_date
  base_prices,   \* the Series get_base_prices returned
  current_prices,\* the row the render took as current prices
  ytd_returns,   \* the Series compute_ytd_returns returned
  app_out,       \* the render: "none", "halted", "computed" or "crashed"
  relative_returns, \* the Series compute_relative_returns returned
  window,        \* config.correlation_window
  corr_df,       \* the rows compute_rolling_correlations returned
  holdings_data, \* the holdings snapshot: [tickers, coin_price_usd]
  holdings_config, \* per-symbol configuration: symbol -> [convertible_debt]
  coin_price_override, \* the caller's coin price, None when not given
  mnav_df,       \* what compute_mnav returned: [out, rows]
  mnav_divisions,\* the denominators compute_mnav divided by, in order
  job_raw,       \* what the provider's call of the offline job did: [kind, df]
  job_out        \* the offline job: "none", "nodata", "saved" or "raised"

hourlyVars == <<start_date, store, hourly_raw, combined, hourly_df, hourly_out>>
dailyVars == <<daily_raw, retry_calls, retry_out, close_df, daily_out>>
metricVars == <<base_date, base_prices, current_prices, ytd_returns, app_out>>
calcVars == <<relative_returns, window, corr_df>>
mnavVars == <<holdings_data, holdings_config, coin_price_override, mnav_df, mnav_divisions>>
jobVars == <<job_raw, job_out>>
vars == <<pc, tickers, hourlyVars, dailyVars, metricVars, calcVars, mnavVars, jobVars>>

(***************************************************************************)
(* The provider (yfinance) and the inputs the model draws.                 *)
(***************************************************************************)
\* A quote's price tells which feed and which index label it came from, so
\* that the result of a merge or of a lookup shows the row it was taken from.
Quote(feed, ts) ==
  CASE feed = "stored" -> 10 + ts
    [] feed = "fresh"  -> 20 + ts
    [] feed = "daily"  -> 30 + ts
    [] feed = "retry"  -> 60 + ts

SeqsOf(S, lo, hi) == UNION {[1..k -> S] : k \in lo..hi}

\* the rows a feed can hold over the columns cs: any label, any cell missing
RowsOver(cs, feed, labels) ==
  {[t |-> ts, v |-> [c \in cs |-> IF c \in pres THEN Num(Quote(feed, ts)) ELSE NaN]] :
     ts \in labels, pres \in SUBSET cs}

Raised == [kind |-> "raise", df |-> EmptyDF]
Returned(df) == [kind |-> "table", df |-> df]
NoCall == [kind |-> "none", df |-> EmptyDF]

\* yfinance returns flat columns for a single ticker, one column per ticker
\* (under "Close") for several
RawCols(tks) == IF Len(tks) = 1 THEN {"Close"} ELSE Range(tks)

\* yf.download(list(tickers), period="5d", interval="1h", ...): the call raises,
\* or returns a frame of at most maxRows rows (no row: raw.empty) whose index
\* is timezone-aware or not
HourlyDownloads(tks, maxRows) ==
  {Raised} \cup
  {Returned([cols |-> RawCols(tks), tz |-> z, rows |-> rs]) :
     z \in BOOLEAN, rs \in SeqsOf(RowsOver(RawCols(tks), "fresh", 1..MaxT), 0, maxRows)}

RECURSIVE SortedSeq(_)
\* the elements of a set of integers in increasing order
SortedSeq(S) ==
  IF S = {} THEN <<>>
  ELSE LET m == CHOOSE x \in S : \A y \in S : x <= y
       IN <<m>> \o SortedSeq(S \ {m})

\* the frames one download can return over the columns cs: the index is
\* increasing and free of repeats, any set of at most maxRows labels, any cell
\* missing
SortedFrames(cs, feed, labels, maxRows) ==
  UNION {{[cols |-> cs, tz |-> FALSE,
           rows |-> [i \in 1..Cardinality(D) |->
                       [t |-> SortedSeq(D)[i],
                        v |-> [c \in cs |-> IF c \in pres[SortedSeq(D)[i]]
                                            THEN Num(Quote(feed, SortedSeq(D)[i]))
                                            ELSE NaN]]]] :
            pres \in [D -> SUBSET cs]} :
         D \in {E \in SUBSET labels : Cardinality(E) <= maxRows}}

\* yf.download(list(tickers), start=start_date, ...): the call raises, or
\* returns a daily frame (no row: raw.empty)
DailyDownloads(tks) ==
  {Raised} \cup {Returned(df) : df \in SortedFrames(RawCols(tks), "daily", 1..MaxDay, MaxDay)}

\* yf.download(t, start=start_date, ...): the single-symbol call
RetryDownloads ==
  {Raised} \cup {Returned(df) : df \in SortedFrames({"Close"}, "retry", 1..MaxDay, MaxDay)}

\* the configurations' symbol lists: a benchmark alone, a benchmark and a ticker
TickerLists == {<<"B">>, <<"B", "X">>}

\* the same, and a benchmark with two tickers
DailyTickerLists == TickerLists \cup {<<"B", "X", "Y">>}

\* the column sets the offline job may have written
StoreColSets == {{"B"}, {"B", "X"}, {"X", "Y"}}

\* the accumulation file: absent, or a timezone-naive frame the job wrote
Stores(budget, colSets) ==
  {[exists |-> FALSE, df |-> EmptyDF]} \cup
  UNION {{[exists |-> TRUE, df |-> [cols |-> cs, tz |-> FALSE, rows |-> rs]] :
            rs \in SeqsOf(RowsOver(cs, "stored", 1..MaxT), 1, budget - 1)} :
         cs \in colSets}

(***************************************************************************)
(* data.py: fetch_hourly_data                                              *)
(***************************************************************************)
\* raw[["Close"]].rename(columns={"Close": tickers[0]}) or raw["Close"]
CloseOf(raw, tks) ==
  IF Len(tks) = 1 THEN Rename(raw, "Close", tks[1]) ELSE raw

\* the stored history restricted to the requested tickers, as a list of frames
StoredFrames(st, tks) ==
  IF ~st.exists THEN <<>>
  ELSE LET stored == TzLocalizeNone(st.df)
           available == SelectSeq(tks, LAMBDA t : t \in stored.cols)
       IN IF available # <<>> THEN <<SelectCols(stored, Range(available))>> ELSE <<>>

\* the fresh fetch, normalised, as a list of frames
FreshFrames(raw, tks) ==
  IF ~IsEmpty(raw) THEN <<TzLocalizeNone(CloseOf(raw, tks))>> ELSE <<>>

\* concat, drop duplicated labels keeping the last, sort
MergeFrames(frames) == SortIndex(DropDuplicated(ConcatFrames(frames)))

\* one call of fetch_hourly_data(tickers, start_date)
HourlyCall(budget) ==
  \E out \in HourlyDownloads(tickers, budget - Len(store.df.rows)) :
    /\ hourly_raw' = out
    /\ IF out.kind = "raise"
       THEN /\ hourly_out' = "raised"
            /\ UNCHANGED <<combined, hourly_df>>
       ELSE LET frames == StoredFrames(store, tickers) \o FreshFrames(out.df, tickers)
            IN /\ hourly_out' = "returned"
               /\ combined' = IF frames = <<>> THEN EmptyDF ELSE MergeFrames(frames)
               /\ hourly_df' = IF frames = <<>> THEN EmptyDF
                               ELSE FromStart(MergeFrames(frames), start_date)
    /\ UNCHANGED <<start_date, store>>

FetchHourlyData ==
  /\ pc = "start"
  /\ HourlyCall(MaxRows)
  /\ pc' = "done"
  /\ UNCHANGED <<tickers, dailyVars, metricVars>>
  /\ UNCHANGED <<calcVars, mnavVars, jobVars>>

\* no call made yet
HourlyIdle ==
  /\ hourly_raw = NoCall
  /\ combined = EmptyDF
  /\ hourly_df = EmptyDF
  /\ hourly_out = "none"

DailyIdle ==
  /\ daily_raw = NoCall
  /\ retry_calls = <<>>
  /\ retry_out = <<>>
  /\ close_df = EmptyDF
  /\ daily_out = "none"

MetricsIdle ==
  /\ base_date = 0
  /\ base_prices = <<>>
  /\ current_prices = <<>>
  /\ ytd_returns = <<>>
  /\ app_out = "none"

CalcIdle ==
  /\ relative_returns = <<>>
  /\ window = 0
  /\ corr_df = <<>>

MnavIdle ==
  /\ holdings_data = [tickers |-> <<>>, coin_price_usd |-> None]
  /\ holdings_config = <<>>
  /\ coin_price_override = None
  /\ mnav_df = [out |-> "none", rows |-> <<>>]
  /\ mnav_divisions = <<>>

JobIdle ==
  /\ job_raw = NoCall
  /\ job_out = "none"

InitHourly ==
  /\ pc = "start"
  /\ tickers \in TickerLists
  /\ start_date \in 1..(MaxT + 1)
  /\ store \in Stores(MaxRows, StoreColSets)
  /\ HourlyIdle
  /\ DailyIdle
  /\ MetricsIdle
  /\ CalcIdle /\ MnavIdle /\ JobIdle

NextHourly == FetchHourlyData

SpecHourly == InitHourly /\ [][NextHourly]_vars

(***************************************************************************)
(* data.py: fetch_price_data                                               *)
(***************************************************************************)
\* close_df[t].isna().all()
AllNaN(df, c) == \A i \in DOMAIN df.rows : IsNaN(df.rows[i].v[c])

\* [t for t in tickers if t in close_df.columns and close_df[t].isna().all()]
Failed(df, tks) ==
  SelectSeq(tks, LAMBDA t : t \in df.cols /\ AllNaN(df, t))

\* close_df[t] = single["Close"]: the assignment aligns on the index of
\* close_df, a label the retry does not have becomes NaN
SetColumn(df, c, single) ==
  [df EXCEPT !.rows =
     [i \in DOMAIN df.rows |->
        [df.rows[i] EXCEPT !.v[c] =
           IF df.rows[i].t \in Index(single)
           THEN LastRowAt(single, df.rows[i].t).v["Close"]
           ELSE NaN]]]

RECURSIVE RetryLoop(_, _, _)
\* for t in failed: single = yf.download(t, ...); if not single.empty: ...
\* outs[t] is what the call for t does; a call that raises ends the loop
RetryLoop(df, failed, outs) ==
  IF failed = <<>> THEN [df |-> df, calls |-> <<>>, raised |-> FALSE]
  ELSE LET t == Head(failed)
           single == outs[t]
       IN IF single.kind = "raise"
          THEN [df |-> df, calls |-> <<t>>, raised |-> TRUE]
          ELSE LET next == IF ~IsEmpty(single.df) THEN SetColumn(df, t, single.df) ELSE df
                   rest == RetryLoop(next, Tail(failed), outs)
               IN [df |-> rest.df, calls |-> <<t>> \o rest.calls, raised |-> rest.raised]

RECURSIVE RowsUsed(_, _)
\* the rows of the frames the calls of `calls` returned
RowsUsed(calls, outs) ==
  IF calls = <<>> THEN 0
  ELSE Len(outs[Head(calls)].df.rows) + RowsUsed(Tail(calls), outs)

\* one call of fetch_price_data(tickers, start_date); the provider hands over
\* at most budget rows in all
DailyCall(budget) ==
  \E bulk \in {b \in DailyDownloads(tickers) : Len(b.df.rows) <= budget} :
    /\ daily_raw' = bulk
    /\ IF bulk.kind = "raise"
       THEN /\ daily_out' = "raised"
            /\ UNCHANGED <<retry_calls, retry_out, close_df>>
       ELSE IF IsEmpty(bulk.df)
       THEN /\ daily_out' = "returned"
            /\ close_df' = EmptyDF
            /\ UNCHANGED <<retry_calls, retry_out>>
       ELSE LET first == CloseOf(bulk.df, tickers)
                failed == Failed(first, tickers)
            IN \E outs \in [Range(failed) -> RetryDownloads] :
                 LET res == RetryLoop(first, failed, outs)
                 IN /\ Len(bulk.df.rows) + RowsUsed(failed, outs) <= budget
                    /\ retry_calls' = res.calls
                    /\ retry_out' = [t \in Range(res.calls) |-> outs[t]]
                    /\ daily_out' = IF res.raised THEN "raised" ELSE "returned"
                    /\ close_df' = IF res.raised THEN close_df ELSE res.df

FetchPriceData ==
  /\ pc = "start"
  /\ DailyCall(4 * MaxDay)
  /\ pc' = "done"
  /\ UNCHANGED <<tickers, hourlyVars, metricVars>>
  /\ UNCHANGED <<calcVars, mnavVars, jobVars>>

InitDaily ==
  /\ pc = "start"
  /\ tickers \in DailyTickerLists
  /\ start_date = 1
  /\ store = [exists |-> FALSE, df |-> EmptyDF]
  /\ HourlyIdle
  /\ DailyIdle
  /\ MetricsIdle
  /\ CalcIdle /\ MnavIdle /\ JobIdle

NextDaily == FetchPriceData

SpecDaily == InitDaily /\ [][NextDaily]_vars

(***************************************************************************)
(* data.py: get_base_prices; calculations.py: compute_ytd_returns;         *)
(* app.py: the current prices.  A Series is a function label -> float.     *)
(***************************************************************************)
\* the positions of the rows on or before the target: close_df.index <= target
MaskOnOrBefore(df, target) == {i \in DOMAIN df.rows : df.rows[i].t <= target}

\* the slip of taking the first row of the mask
FirstOf(S) == CHOOSE i \in S : \A j \in S : i <= j

\* close_df.index[mask][-1]: the last position of the mask
LastOf(S) == CHOOSE i \in S : \A j \in S : j <= i

\* get_base_prices(close_df, base_date): the row at the last label on or before
\* the target, the empty Series when there is none
GetBasePrices(df, target) ==
  LET mask == MaskOnOrBefore(df, target)
  IN IF mask = {} THEN <<>>
     ELSE LastRowAt(df, df.rows[LastOf(mask)].t).v

\* the slip of mixing the two series symbol by symbol
CurrentPricesMixed(hourly, daily) ==
  [c \in daily.cols |->
     IF ~IsEmpty(hourly) /\ c \in hourly.cols /\ ~IsNaN(hourly.rows[Len(hourly.rows)].v[c])
     THEN hourly.rows[Len(hourly.rows)].v[c]
     ELSE daily.rows[Len(daily.rows)].v[c]]

\* hourly_df.iloc[-1] if not hourly_df.empty else close_df.iloc[-1]
CurrentPrices(hourly, daily) ==
  IF ~IsEmpty(hourly) THEN hourly.rows[Len(hourly.rows)].v
  ELSE daily.rows[Len(daily.rows)].v

\* s[c], NaN where the Series has no such label (the alignment of a binary
\* operation on two Series)
At(series, c) == IF c \in DOMAIN series THEN series[c] ELSE NaN

\* compute_ytd_returns: (current_prices / base_prices) - 1 over the union of
\* the two indexes
ComputeYtdReturns(current, base) ==
  [c \in DOMAIN current \cup DOMAIN base |->
     MinusOne(Divide(At(current, c), At(base, c)))]

\* config.benchmark: all_tickers lists the benchmark first
Benchmark(tks) == tks[1]

\* the slip of subtracting without testing the benchmark's return
RelativeReturnsUnguarded(ytd, benchmark_ticker) ==
  [c \in DOMAIN ytd |-> Sub(ytd[c], At(ytd, benchmark_ticker))]

\* compute_relative_returns: the empty Series when ytd_returns.get(benchmark)
\* is None or NaN, else ytd_returns - benchmark_return
ComputeRelativeReturns(ytd, benchmark_ticker) ==
  LET benchmark_return ==
        IF benchmark_ticker \in DOMAIN ytd THEN ytd[benchmark_ticker] ELSE None
  IN IF IsNA(benchmark_return) THEN <<>>
     ELSE [c \in DOMAIN ytd |-> Sub(ytd[c], benchmark_return)]

\* close_df.pct_change(fill_method=None).iloc[1:]: row i holds, per column,
\* value / previous value - 1, NaN when either is NaN; the first row is dropped
PctChange(df) ==
  [df EXCEPT !.rows =
     [i \in 1..(Len(df.rows) - 1) |->
        [t |-> df.rows[i + 1].t,
         v |-> [c \in df.cols |->
                  MinusOne(Divide(df.rows[i + 1].v[c], df.rows[i].v[c]))]]]]

\* pd.concat([bench_returns, ticker_returns], axis=1).dropna(): the rows at
\* which both returns are not NaN, as pairs [t, x, y]
Aligned(returns, bench, ticker) ==
  LET both == [i \in DOMAIN returns.rows |->
                 [t |-> returns.rows[i].t,
                  x |-> returns.rows[i].v[bench],
                  y |-> returns.rows[i].v[ticker]]]
  IN SelectSeq(both, LAMBDA r : ~IsNaN(r.x) /\ ~IsNaN(r.y))

\* the slip of slicing the last rows of the table before the rows with a
\* missing return are dropped
RawTailThenDropNA(pairs, returns, bench, ticker, w) ==
  LET n == Len(returns.rows)
      last == [returns EXCEPT !.rows = SubSeq(returns.rows, n - w + 1, n)]
  IN Aligned(last, bench, ticker)

\* aligned.iloc[-window:]: the last w pairs (all of them when w = 0)
Recent(pairs, returns, bench, ticker, w) ==
  IF w = 0 THEN pairs ELSE SubSeq(pairs, Len(pairs) - w + 1, Len(pairs))

\* x.corr(y, method="pearson") of the pairs: cov(x, y) / sqrt(var(x) var(y)),
\* NaN when a variance is 0 (0/0) or a value is not finite
Pearson(pairs) ==
  IF \E i \in DOMAIN pairs : pairs[i].x.kind # "num" \/ pairs[i].y.kind # "num" THEN NaN
  ELSE LET n == Num(Len(pairs))
           sx == SumSeq([i \in DOMAIN pairs |-> pairs[i].x])
           sy == SumSeq([i \in DOMAIN pairs |-> pairs[i].y])
           sxy == SumSeq([i \in DOMAIN pairs |-> Times(pairs[i].x, pairs[i].y)])
           sxx == SumSeq([i \in DOMAIN pairs |-> Times(pairs[i].x, pairs[i].x)])
           syy == SumSeq([i \in DOMAIN pairs |-> Times(pairs[i].y, pairs[i].y)])
           cxy == Sub(Times(n, sxy), Times(sx, sy))
           cxx == Sub(Times(n, sxx), Times(sx, sx))
           cyy == Sub(Times(n, syy), Times(sy, sy))
       IN IF cxx.n = 0 \/ cyy.n = 0 THEN NaN
          ELSE Root(Sign(cxy), Ratio(cxy.n * cxy.n * cxx.d * cyy.d,
                                     cxy.d * cxy.d * cxx.n * cyy.n))

\* the slip of comparing with <= in the test of the window
TooShortInclusive(pairs, w) == Len(pairs) <= w

\* len(aligned) < window
TooShort(pairs, w) == Len(pairs) < w

\* compute_rolling_correlations(close_df, benchmark, dat_tickers, window): no
\* row at all when the benchmark has no column, else one row per ticker
ComputeRollingCorrelations(df, benchmark_ticker, dat_tickers, w) ==
  LET daily_returns == PctChange(df)
  IN IF benchmark_ticker \notin daily_returns.cols THEN <<>>
     ELSE [k \in DOMAIN dat_tickers |->
             LET ticker == dat_tickers[k]
             IN IF ticker \notin daily_returns.cols
                THEN [Ticker |-> ticker, Pearson |-> None]
                ELSE LET aligned == Aligned(daily_returns, benchmark_ticker, ticker)
                     IN IF TooShort(aligned, w)
                        THEN [Ticker |-> ticker, Pearson |-> None]
                        ELSE [Ticker |-> ticker,
                              Pearson |-> Pearson(Recent(aligned, daily_returns,
                                                         benchmark_ticker, ticker, w))]]

(***************************************************************************)
(* app.py: one dashboard of the render loop.                               *)
(***************************************************************************)
\* close_df, _ = fetch_price_data(config.all_tickers, daily_start)
RenderFetchPrices ==
  /\ pc = "start"
  /\ DailyCall(AppRows - Len(store.df.rows))
  /\ pc' = IF daily_out' = "raised" THEN "crashed" ELSE "daily"
  /\ app_out' = IF daily_out' = "raised" THEN "crashed" ELSE app_out
  /\ UNCHANGED <<tickers, hourlyVars, base_date, base_prices, current_prices, ytd_returns>>
  /\ UNCHANGED <<calcVars, mnavVars, jobVars>>

\* hourly_df, hourly_ts = fetch_hourly_data(config.all_tickers, hourly_start)
RenderFetchHourly ==
  /\ pc = "daily"
  /\ HourlyCall(AppRows - Len(daily_raw.df.rows) - RowsUsed(retry_calls, retry_out))
  /\ pc' = IF hourly_out' = "raised" THEN "crashed" ELSE "hourly"
  /\ app_out' = IF hourly_out' = "raised" THEN "crashed" ELSE app_out
  /\ UNCHANGED <<tickers, dailyVars, base_date, base_prices, current_prices, ytd_returns>>
  /\ UNCHANGED <<calcVars, mnavVars, jobVars>>

\* if close_df.empty: st.error(...); continue
RenderHalt ==
  /\ pc = "hourly"
  /\ IsEmpty(close_df)
  /\ pc' = "done"
  /\ app_out' = "halted"
  /\ UNCHANGED <<tickers, hourlyVars, dailyVars, base_date, base_prices, current_prices, ytd_returns>>
  /\ UNCHANGED <<calcVars, mnavVars, jobVars>>

\* base_prices, current_prices, ytd_returns, relative_returns, corr_df
RenderCompute ==
  /\ pc = "hourly"
  /\ ~IsEmpty(close_df)
  /\ base_prices' = GetBasePrices(close_df, base_date)
  /\ current_prices' = CurrentPrices(hourly_df, close_df)
  /\ ytd_returns' = ComputeYtdReturns(CurrentPrices(hourly_df, close_df),
                                      GetBasePrices(close_df, base_date))
  /\ relative_returns' =
       ComputeRelativeReturns(ComputeYtdReturns(CurrentPrices(hourly_df, close_df),
                                                GetBasePrices(close_df, base_date)),
                              Benchmark(tickers))
  /\ corr_df' = ComputeRollingCorrelations(close_df, Benchmark(tickers), Tail(tickers), window)
  /\ pc' = "done"
  /\ app_out' = "computed"
  /\ UNCHANGED <<tickers, hourlyVars, dailyVars, base_date, window, mnavVars, jobVars>>

\* a dashboard's configuration and the accumulation file as the render finds
\* them (absent, or written for the benchmark alone); hourly_start is the base
\* date
Init ==
  /\ pc = "start"
  /\ tickers \in TickerLists
  /\ base_date \in 1..MaxDay
  /\ start_date = base_date
  /\ store \in Stores(AppRows, {{"B"}})
  /\ HourlyIdle
  /\ DailyIdle
  /\ base_prices = <<>>
  /\ current_prices = <<>>
  /\ ytd_returns = <<>>
  /\ app_out = "none"
  /\ relative_returns = <<>>
  /\ window = MaxWindow
  /\ corr_df = <<>>
  /\ MnavIdle /\ JobIdle

Next == RenderFetchPrices \/ RenderFetchHourly \/ RenderHalt \/ RenderCompute

Spec == Init /\ [][Next]_vars

(***************************************************************************)
(* get_base_prices and compute_ytd_returns on their own, over inputs drawn  *)
(* from bounded sets.                                                      *)
(***************************************************************************)
\* the daily frames get_base_prices is handed: at most MaxDay sessions among
\* the days 1..LookbackDays + MaxDay
BaseFrames(cs) ==
  SortedFrames(cs, "daily", 1..(LookbackDays + MaxDay), MaxDay)

ApplyGetBasePrices ==
  /\ pc = "start"
  /\ base_prices' = GetBasePrices(close_df, base_date)
  /\ pc' = "done"
  /\ UNCHANGED <<tickers, hourlyVars, dailyVars, base_date, current_prices, ytd_returns, app_out>>
  /\ UNCHANGED <<calcVars, mnavVars, jobVars>>

InitBase ==
  /\ pc = "start"
  /\ tickers \in TickerLists
  /\ close_df \in BaseFrames(Range(tickers))
  /\ base_date \in 0..(LookbackDays + MaxDay + 1)
  /\ daily_raw = NoCall /\ retry_calls = <<>> /\ retry_out = <<>> /\ daily_out = "none"
  /\ start_date = 1
  /\ store = [exists |-> FALSE, df |-> EmptyDF]
  /\ HourlyIdle
  /\ base_prices = <<>> /\ current_prices = <<>> /\ ytd_returns = <<>> /\ app_out = "none"
  /\ CalcIdle /\ MnavIdle /\ JobIdle

NextBase == ApplyGetBasePrices

SpecBase == InitBase /\ [][NextBase]_vars

\* the prices a Series may hold: missing, or any integer of -MaxPrice..MaxPrice
PriceValues == {NaN} \cup {Num(x) : x \in (-MaxPrice)..MaxPrice}

\* the Series over some of the symbols
PriceSeries == UNION {[cs -> PriceValues] : cs \in SUBSET {"B", "X"}}

ApplyComputeYtdReturns ==
  /\ pc = "start"
  /\ ytd_returns' = ComputeYtdReturns(current_prices, base_prices)
  /\ pc' = "done"
  /\ UNCHANGED <<tickers, hourlyVars, dailyVars, base_date, base_prices, current_prices, app_out>>
  /\ UNCHANGED <<calcVars, mnavVars, jobVars>>

InitReturns ==
  /\ pc = "start"
  /\ tickers = <<"B", "X">>
  /\ current_prices \in PriceSeries
  /\ base_prices \in PriceSeries
  /\ ytd_returns = <<>>
  /\ base_date = 0
  /\ app_out = "none"
  /\ start_date = 1
  /\ store = [exists |-> FALSE, df |-> EmptyDF]
  /\ HourlyIdle
  /\ DailyIdle
  /\ CalcIdle /\ MnavIdle /\ JobIdle

NextReturns == ApplyComputeYtdReturns

SpecReturns == InitReturns /\ [][NextReturns]_vars

(***************************************************************************)
(* compute_relative_returns on its own.                                    *)
(***************************************************************************)
\* the returns a Series may hold: missing, or a multiple of 1/2 (prices are
\* positive, so a return is finite)
ReturnValues == {NaN} \cup {Ratio(x, 2) : x \in (-MaxPrice)..MaxPrice}

\* the returns maps over some of the symbols
ReturnSeries == UNION {[cs -> ReturnValues] : cs \in SUBSET {"B", "X", "Y"}}

ApplyComputeRelativeReturns ==
  /\ pc = "start"
  /\ relative_returns' = ComputeRelativeReturns(ytd_returns, Benchmark(tickers))
  /\ pc' = "done"
  /\ UNCHANGED <<tickers, hourlyVars, dailyVars, metricVars, window, corr_df, mnavVars, jobVars>>

InitRelative ==
  /\ pc = "start"
  /\ tickers = <<"B", "X", "Y">>
  /\ ytd_returns \in ReturnSeries
  /\ base_date = 0 /\ base_prices = <<>> /\ current_prices = <<>> /\ app_out = "none"
  /\ start_date = 1
  /\ store = [exists |-> FALSE, df |-> EmptyDF]
  /\ HourlyIdle
  /\ DailyIdle
  /\ CalcIdle /\ MnavIdle /\ JobIdle

NextRelative == ApplyComputeRelativeReturns

SpecRelative == InitRelative /\ [][NextRelative]_vars

(***************************************************************************)
(* compute_rolling_correlations on its own.                                *)
(***************************************************************************)
\* a cell of the price table: missing, or one of two price levels
CorrValues == {NaN, Num(1), Num(2)}

\* the price tables over the columns cs: n sessions 1..n, n <= CorrRows, any
\* cell at either price level, at most MaxGaps cells missing
CorrFrames(cs) ==
  UNION {{[cols |-> cs, tz |-> FALSE,
           rows |-> [i \in 1..n |-> [t |-> i, v |-> [c \in cs |-> cell[<<i, c>>]]]]] :
            cell \in {f \in [(1..n) \X cs -> CorrValues] :
                        Cardinality({x \in (1..n) \X cs : IsNaN(f[x])}) <= MaxGaps}} :
         n \in 0..CorrRows}

ApplyComputeRollingCorrelations ==
  /\ pc = "start"
  /\ corr_df' = ComputeRollingCorrelations(close_df, Benchmark(tickers), Tail(tickers), window)
  /\ pc' = "done"
  /\ UNCHANGED <<tickers, hourlyVars, dailyVars, metricVars, relative_returns, window,
                 mnavVars, jobVars>>

\* the benchmark B and the tickers X and Y; the table has a column for B and X,
\* or for X alone; a window holds two pairs at least (one pair has no
\* coefficient)
InitCorr ==
  /\ pc = "start"
  /\ tickers = <<"B", "X", "Y">>
  /\ close_df \in CorrFrames({"B", "X"}) \cup CorrFrames({"X"})
  /\ window \in 2..MaxWindow
  /\ relative_returns = <<>> /\ corr_df = <<>>
  /\ daily_raw = NoCall /\ retry_calls = <<>> /\ retry_out = <<>> /\ daily_out = "none"
  /\ start_date = 1
  /\ store = [exists |-> FALSE, df |-> EmptyDF]
  /\ HourlyIdle
  /\ MetricsIdle
  /\ MnavIdle /\ JobIdle

NextCorr == ApplyComputeRollingCorrelations

SpecCorr == InitCorr /\ [][NextCorr]_vars

(***************************************************************************)
(* holdings.py: compute_mnav.  A dict is a function over its keys; a value  *)
(* of the holdings file is None (null or no such key) or a number.  The    *)
(* descriptive fields of a row (coin source, shares type, update date) are *)
(* copied through and left out.                                            *)
(***************************************************************************)
\* the truth value of a Python value: None and 0 are false
Truthy(x) == ~(x.kind = "none" \/ (x.kind = "num" /\ x.n = 0))

\* x or 0
OrZero(x) == IF Truthy(x) THEN x ELSE Num(0)

\* d.get(k), None when the dict has no such key
Get(d, k) == IF k \in DOMAIN d THEN d[k] ELSE None

\* coin_price_override or holdings_data.get("coin_price_usd")
CoinPrice(hd, override) == IF Truthy(override) THEN override ELSE hd.coin_price_usd

\* holdings_config.get(t, {}).get("convertible_debt")
ConvertibleDebt(cfg, t) == IF t \in DOMAIN cfg THEN cfg[t].convertible_debt ELSE None

\* the slip of leaving out max(0, .)
NonConvDebtUnclamped(total_debt, convertible_debt) ==
  IF convertible_debt.kind # "none" THEN Sub(total_debt, convertible_debt) ELSE Num(0)

\* max(0, total_debt - convertible_debt) if convertible_debt is not None else 0
NonConvDebt(total_debt, convertible_debt) ==
  IF convertible_debt.kind # "none"
  THEN (IF Sub(total_debt, convertible_debt).n > 0
        THEN Sub(total_debt, convertible_debt) ELSE Num(0))
  ELSE Num(0)

\* coin_value + total_cash - non_conv
AdjustedNav(info, coin_price, convertible_debt) ==
  Sub(Plus(Times(info.coin_held, coin_price), OrZero(info.total_cash)),
      NonConvDebt(OrZero(info.total_debt), convertible_debt))

\* the slip of skipping on a missing price only when the Series has no entry
HasPriceEntry(prices, t) == t \in DOMAIN prices

\* not (pd.isna(stock_price) or stock_price is None)
HasPrice(prices, t) == ~IsNA(Get(prices, t))

\* the tickers the loop does not skip: an entry, coin_held and shares that are
\* not None or 0, a current price
Included(hd, tks, prices) ==
  SelectSeq(tks, LAMBDA t :
    /\ t \in DOMAIN hd.tickers
    /\ Truthy(hd.tickers[t].coin_held)
    /\ Truthy(hd.tickers[t].shares_outstanding)
    /\ HasPrice(prices, t))

\* the row appended for ticker t
MnavRow(hd, t, prices, cfg, coin_price) ==
  LET info == hd.tickers[t]
      stock_price == prices[t]
      market_cap == Times(info.shares_outstanding, stock_price)
      convertible_debt == ConvertibleDebt(cfg, t)
      adjusted_nav == AdjustedNav(info, coin_price, convertible_debt)
  IN [Ticker |-> t,
      mNAV |-> IF adjusted_nav.n > 0 THEN Divide(market_cap, adjusted_nav) ELSE None,
      CoinHeld |-> info.coin_held,
      Shares |-> info.shares_outstanding,
      StockPrice |-> stock_price,
      Cash |-> OrZero(info.total_cash),
      ConvDebt |-> convertible_debt,
      NonConvDebt |-> NonConvDebt(OrZero(info.total_debt), convertible_debt),
      CoinPrice |-> coin_price]

\* compute_mnav(holdings_data, tickers, current_prices, holdings_config,
\* coin_price_override): the rows, and the denominators it divided by
ComputeMnav(hd, tks, prices, cfg, override) ==
  LET coin_price == CoinPrice(hd, override)
  IN IF DOMAIN hd.tickers = {} \/ ~Truthy(coin_price)
     THEN [out |-> "returned", rows |-> <<>>, divisions |-> <<>>]
     ELSE LET kept == Included(hd, tks, prices)
              navs == [k \in DOMAIN kept |->
                         AdjustedNav(hd.tickers[kept[k]], coin_price,
                                     ConvertibleDebt(cfg, kept[k]))]
          IN [out |-> "returned",
              rows |-> [k \in DOMAIN kept |-> MnavRow(hd, kept[k], prices, cfg, coin_price)],
              divisions |-> SelectSeq(navs, LAMBDA a : a.n > 0)]

\* a value of the holdings file
Amounts == {None} \cup {Num(x) : x \in 0..MaxAmount}

\* the entries of a symbol
Infos == [coin_held : Amounts, shares_outstanding : Amounts,
          total_debt : Amounts, total_cash : Amounts]

\* an entry that lacks nothing
FullInfo == [coin_held |-> Num(1), shares_outstanding |-> Num(1),
             total_debt |-> None, total_cash |-> None]

\* the snapshots: X has any entry or none, Y a full entry or none
Snapshots ==
  {[tickers |-> x @@ y, coin_price_usd |-> p] :
     x \in {<<>>} \cup {[t \in {"X"} |-> i] : i \in Infos},
     y \in {<<>>, [t \in {"Y"} |-> FullInfo]},
     p \in Amounts}

ApplyComputeMnav ==
  /\ pc = "start"
  /\ LET res == ComputeMnav(holdings_data, Tail(tickers), current_prices,
                            holdings_config, coin_price_override)
     IN /\ mnav_df' = [out |-> res.out, rows |-> res.rows]
        /\ mnav_divisions' = res.divisions
  /\ pc' = "done"
  /\ UNCHANGED <<tickers, hourlyVars, dailyVars, metricVars, calcVars,
                 holdings_data, holdings_config, coin_price_override, jobVars>>

\* the tickers X and Y of a dashboard; Y has a price, X any price or none;
\* X has any convertible_debt or none configured
InitMnav ==
  /\ pc = "start"
  /\ tickers = <<"B", "X", "Y">>
  /\ holdings_data \in Snapshots
  /\ holdings_config \in {<<>>} \cup {[t \in {"X"} |-> [convertible_debt |-> a]] : a \in Amounts}
  /\ coin_price_override \in {None, Num(MaxAmount)}
  /\ current_prices \in {[t \in {"Y"} |-> Num(1)]}
                         \cup {[t \in {"X", "Y"} |-> IF t = "Y" THEN Num(1) ELSE a] :
                                 a \in {NaN} \cup {Num(x) : x \in 1..MaxAmount}}
  /\ mnav_df = [out |-> "none", rows |-> <<>>]
  /\ mnav_divisions = <<>>
  /\ base_date = 0 /\ base_prices = <<>> /\ ytd_returns = <<>> /\ app_out = "none"
  /\ start_date = 1
  /\ store = [exists |-> FALSE, df |-> EmptyDF]
  /\ HourlyIdle
  /\ DailyIdle
  /\ CalcIdle /\ JobIdle

NextMnav == ApplyComputeMnav

SpecMnav == InitMnav /\ [][NextMnav]_vars

(***************************************************************************)
(* scripts/update_prices.py: the offline job, and the dashboard reading    *)
(* the file the job writes.                                                *)
(***************************************************************************)
\* fetch_hourly(tickers): the empty frame when raw.empty, else the Close
\* columns, renamed for a single ticker
FetchHourly(raw, tks) == IF IsEmpty(raw) THEN EmptyDF ELSE CloseOf(raw, tks)

\* the slip of saving the fresh frame over the file that exists
SaveFreshOnly(st, fresh) == TzLocalizeNone(fresh)

\* main: the frame written to the file: existing and fresh concatenated,
\* duplicated labels dropped keeping the last, sorted; fresh as it is when the
\* file does not exist
JobCombined(st, fresh) ==
  IF st.exists
  THEN SortIndex(DropDuplicated(ConcatFrames(<<TzLocalizeNone(st.df), TzLocalizeNone(fresh)>>)))
  ELSE TzLocalizeNone(fresh)

\* one run of main(), started while nothing else runs: the provider call
\* raises, returns nothing, or returns a frame that is merged into the file
UpdatePricesMain ==
  /\ pc = "start"
  /\ \E out \in HourlyDownloads(tickers, MaxRows - Len(store.df.rows)) :
       /\ job_raw' = out
       /\ IF out.kind = "raise"
          THEN job_out' = "raised" /\ store' = store
          ELSE IF IsEmpty(FetchHourly(out.df, tickers))
          THEN job_out' = "nodata" /\ store' = store
          ELSE /\ job_out' = "saved"
               /\ store' = [exists |-> TRUE,
                            df |-> JobCombined(store, FetchHourly(out.df, tickers))]
  /\ pc' = "job"
  /\ UNCHANGED <<tickers, start_date, hourly_raw, combined, hourly_df, hourly_out,
                 dailyVars, metricVars, calcVars, mnavVars>>

\* the process of the job ends: nothing of the run remains but the file
JobExits ==
  /\ pc = "job"
  /\ job_raw' = NoCall
  /\ job_out' = "none"
  /\ pc' = "start"
  /\ UNCHANGED <<tickers, hourlyVars, dailyVars, metricVars, calcVars, mnavVars>>

\* the slip of saving the merged frame back to the file
FetchHourlyDataWritingBack ==
  /\ pc = "start"
  /\ \E out \in HourlyDownloads(tickers, MaxRows - Len(store.df.rows)) :
       LET frames == IF out.kind = "raise" THEN <<>>
                     ELSE StoredFrames(store, tickers) \o FreshFrames(out.df, tickers)
       IN /\ hourly_raw' = out
          /\ hourly_out' = IF out.kind = "raise" THEN "raised" ELSE "returned"
          /\ combined' = IF frames = <<>> THEN EmptyDF ELSE MergeFrames(frames)
          /\ hourly_df' = IF frames = <<>> THEN EmptyDF
                          ELSE FromStart(MergeFrames(frames), start_date)
          /\ store' = IF frames = <<>> THEN store
                      ELSE [exists |-> TRUE, df |-> MergeFrames(frames)]
  /\ pc' = "fetch"
  /\ UNCHANGED <<tickers, start_date, dailyVars, metricVars, calcVars, mnavVars, jobVars>>

\* a render, started while nothing else runs, calls
\* fetch_hourly_data(tickers, start_date) on the file as it is
FetchHourlyDataOnStore ==
  /\ pc = "start"
  /\ HourlyCall(MaxRows)
  /\ pc' = "fetch"
  /\ UNCHANGED <<tickers, dailyVars, metricVars, calcVars, mnavVars, jobVars>>

\* the render ends: the frames it held are gone
RenderEnds ==
  /\ pc = "fetch"
  /\ hourly_raw' = NoCall
  /\ combined' = EmptyDF
  /\ hourly_df' = EmptyDF
  /\ hourly_out' = "none"
  /\ pc' = "start"
  /\ UNCHANGED <<tickers, start_date, store, dailyVars, metricVars, calcVars, mnavVars, jobVars>>

\* the file does not exist before the first run of the job; runs of the job
\* and renders follow one another in any order
InitStore ==
  /\ pc = "start"
  /\ tickers \in TickerLists
  /\ start_date = 1
  /\ store = [exists |-> FALSE, df |-> EmptyDF]
  /\ HourlyIdle
  /\ DailyIdle
  /\ MetricsIdle
  /\ CalcIdle /\ MnavIdle /\ JobIdle

NextStore == UpdatePricesMain \/ JobExits \/ FetchHourlyDataOnStore \/ RenderEnds

SpecStore == InitStore /\ [][NextStore]_vars

(***************************************************************************)
(* Claims about fetch_price_data.                                          *)
(***************************************************************************)
\* the bulk call returned a frame with rows
BulkNonEmpty == daily_raw.kind = "table" /\ ~IsEmpty(daily_raw.df)

\* the Close frame of the bulk call, before any retry
BulkClose == CloseOf(daily_raw.df, tickers)

\* how many single-symbol calls were issued for t
CallsFor(t) == Cardinality({i \in DOMAIN retry_calls : retry_calls[i] = t})

\* C3: after a non-empty bulk fetch, exactly one single-symbol call is issued
\* for each requested symbol whose whole column is missing, and none for a
\* symbol whose column has a value.
C3_OneRetryPerFailedSymbol ==
  (daily_out # "none" /\ BulkNonEmpty) =>
    \A t \in Range(tickers) :
      CallsFor(t) = IF t \in BulkClose.cols /\ AllNaN(BulkClose, t) THEN 1 ELSE 0

\* the same, for the calls of fetch_price_data in which no provider call raised
C3_WhenNoCallRaises ==
  (daily_out = "returned" /\ BulkNonEmpty) =>
    \A t \in Range(tickers) :
      CallsFor(t) = IF t \in BulkClose.cols /\ AllNaN(BulkClose, t) THEN 1 ELSE 0

\* the example of the specification: three symbols, one of them all-missing
C3_Example ==
  /\ daily_out = "returned" /\ BulkNonEmpty
  /\ Len(tickers) = 3
  /\ Cardinality({t \in Range(tickers) : AllNaN(BulkClose, t)}) = 1
  /\ Len(retry_calls) = 1

\* the column c of df holds, label by label, the values of the retry's frame
ColumnIsRetry(df, c, single) ==
  \A i \in DOMAIN df.rows :
    df.rows[i].v[c] = IF df.rows[i].t \in Index(single)
                      THEN LastRowAt(single, df.rows[i].t).v["Close"]
                      ELSE NaN

\* the frame has the index of the bulk frame and, in every column that was not
\* all-missing, the values of the bulk frame
OthersAsBulk(df) ==
  /\ df.cols = BulkClose.cols
  /\ Len(df.rows) = Len(BulkClose.rows)
  /\ \A i \in DOMAIN df.rows :
       /\ df.rows[i].t = BulkClose.rows[i].t
       /\ \A c \in df.cols : ~AllNaN(BulkClose, c) => df.rows[i].v[c] = BulkClose.rows[i].v[c]

\* C4: the retry of an all-missing symbol is best-effort: when it returns data
\* the symbol's column becomes the retry's values, when it returns nothing the
\* column stays all-missing, and either way a non-empty frame is returned
\* without error whose other columns are those of the bulk fetch.
C4_BestEffortRetry ==
  \A t \in DOMAIN retry_out :
    retry_out[t].kind = "table" =>
      /\ daily_out = "returned"
      /\ ~IsEmpty(close_df)
      /\ IF IsEmpty(retry_out[t].df)
         THEN AllNaN(close_df, t)
         ELSE ColumnIsRetry(close_df, t, retry_out[t].df)
      /\ OthersAsBulk(close_df)

\* the same, for the calls of fetch_price_data in which no provider call raised
C4_WhenNoCallRaises ==
  daily_out = "returned" =>
    \A t \in DOMAIN retry_out :
      /\ ~IsEmpty(close_df)
      /\ IF IsEmpty(retry_out[t].df)
         THEN AllNaN(close_df, t)
         ELSE ColumnIsRetry(close_df, t, retry_out[t].df)
      /\ OthersAsBulk(close_df)

(***************************************************************************)
(* Claims about fetch_hourly_data.                                         *)
(***************************************************************************)
StoredPart == StoredFrames(store, tickers)
FreshPart == FreshFrames(hourly_raw.df, tickers)

\* C1: for every timestamp that occurs both in the stored history (restricted
\* to the requested symbols) and in the fresh fetch, and every requested symbol
\* that is a column of both, the merged frame holds exactly one row for that
\* timestamp and its cell is the fresh fetch's (latest) value for it.
C1_FreshWins ==
  (hourly_out = "returned" /\ StoredPart # <<>> /\ FreshPart # <<>>) =>
    \A ts \in Index(StoredPart[1]) \cap Index(FreshPart[1]) :
      /\ Cardinality(RowsAt(combined, ts)) = 1
      /\ \A c \in Range(tickers) \cap StoredPart[1].cols \cap FreshPart[1].cols :
           \A i \in RowsAt(combined, ts) :
             combined.rows[i].v[c] = LastRowAt(FreshPart[1], ts).v[c]

\* a merge in which a stored quote and a fresh quote of one symbol meet at one
\* timestamp
C1_Witness ==
  /\ hourly_out = "returned" /\ StoredPart # <<>> /\ FreshPart # <<>>
  /\ \E ts \in Index(StoredPart[1]) \cap Index(FreshPart[1]) :
       \E c \in Range(tickers) \cap StoredPart[1].cols \cap FreshPart[1].cols :
         /\ ~IsNaN(LastRowAt(StoredPart[1], ts).v[c])
         /\ ~IsNaN(LastRowAt(FreshPart[1], ts).v[c])

StrictlyIncreasing(rows) ==
  \A i \in DOMAIN rows : \A j \in DOMAIN rows : i < j => rows[i].t < rows[j].t

\* C2: whatever the stored history and the fresh fetch hold, the frame that
\* fetch_hourly_data returns has strictly increasing timestamps.
C2_StrictlyChronological ==
  hourly_out = "returned" => StrictlyIncreasing(hourly_df.rows)

\* a returned frame of several rows whose inputs were out of order and repeated
\* a timestamp
C2_Witness ==
  /\ hourly_out = "returned"
  /\ Len(hourly_df.rows) >= 2
  /\ LET all == ConcatFrames(StoredPart \o FreshPart).rows
     IN /\ \E i \in DOMAIN all : \E j \in DOMAIN all : i < j /\ all[i].t > all[j].t
        /\ \E i \in DOMAIN all : \E j \in DOMAIN all : i < j /\ all[i].t = all[j].t

(***************************************************************************)
(* Claims about the render, get_base_prices and compute_ytd_returns.       *)
(***************************************************************************)
\* the render of the dashboard has ended, normally or by an exception
RenderEnded == pc \in {"done", "crashed"}

\* C5: total fetch failure is the single fatal condition: when the bulk fetch
\* returns nothing the engine returns an empty frame and the render computes
\* nothing; whenever the bulk fetch returns a frame with rows the computation
\* is not halted.
C5_OnlyTotalFailureIsFatal ==
  RenderEnded =>
    /\ (daily_raw.kind = "table" /\ IsEmpty(daily_raw.df)) =>
         (daily_out = "returned" /\ IsEmpty(close_df) /\ app_out # "computed")
    /\ BulkNonEmpty => app_out = "computed"

\* the same, for the renders in which no provider call raised
C5_WhenNoCallRaises ==
  pc = "done" =>
    /\ (daily_raw.kind = "table" /\ IsEmpty(daily_raw.df)) =>
         (daily_out = "returned" /\ IsEmpty(close_df) /\ app_out = "halted")
    /\ BulkNonEmpty => app_out = "computed"

\* C6: a provider call that raises is treated as one that returns empty: for
\* the bulk call, every single-symbol call and the hourly call, the failure does
\* not leave the engine as an exception but ends in an empty or missing result.
C6_RaiseIsEmptyResult ==
  /\ daily_raw.kind = "raise" => (daily_out = "returned" /\ IsEmpty(close_df))
  /\ \A t \in DOMAIN retry_out :
       retry_out[t].kind = "raise" => (daily_out = "returned" /\ AllNaN(close_df, t))
  /\ hourly_raw.kind = "raise" => hourly_out = "returned"

\* the row of df at its most recent timestamp, when series is that row
IsLatestRow(df, series) ==
  \E i \in DOMAIN df.rows :
    /\ \A j \in DOMAIN df.rows : df.rows[j].t <= df.rows[i].t
    /\ series = df.rows[i].v

\* C7: the current price of each symbol is the value at the most recent
\* timestamp of the series, the whole row of the intraday series when that is
\* non-empty and of the daily series only when the intraday series is empty.
C7_CurrentFromOneSeries ==
  app_out = "computed" =>
    IF ~IsEmpty(hourly_df) THEN IsLatestRow(hourly_df, current_prices)
    ELSE IsLatestRow(close_df, current_prices)

\* a render whose intraday series has several rows and misses, at its latest
\* row, a symbol the daily series has a price for
C7_Witness ==
  /\ app_out = "computed"
  /\ Len(hourly_df.rows) >= 2
  /\ \E c \in hourly_df.cols \cap close_df.cols :
       /\ IsNaN(current_prices[c])
       /\ ~IsNaN(close_df.rows[Len(close_df.rows)].v[c])

\* the timestamps of df on or before the target
OnOrBefore(df, target) == {t \in Index(df) : t <= target}

Max(S) == CHOOSE x \in S : \A y \in S : y <= x

C9_BoundedLookback ==
  pc = "done" =>
    IF OnOrBefore(close_df, base_date) = {} THEN base_prices = <<>>
    ELSE IF base_date - Max(OnOrBefore(close_df, base_date)) > LookbackDays
         THEN base_prices = <<>> \/ \A c \in DOMAIN base_prices : IsNaN(base_prices[c])
    ELSE /\ DOMAIN base_prices = close_df.cols
         /\ \A c \in close_df.cols :
              base_prices[c] = LastRowAt(close_df, Max(OnOrBefore(close_df, base_date))).v[c]

\* the same with the sessions that lie within the horizon only
C9_WithinHorizon ==
  (pc = "done" /\ OnOrBefore(close_df, base_date) # {}
     /\ base_date - Max(OnOrBefore(close_df, base_date)) <= LookbackDays) =>
    \A c \in close_df.cols :
      base_prices[c] = LastRowAt(close_df, Max(OnOrBefore(close_df, base_date))).v[c]

\* r is the number current/base - 1
IsReturnOf(r, current, base) ==
  /\ r.kind = "num"
  /\ r.n * base.n * current.d = (current.n * base.d - base.n * current.d) * r.d

\* C10: compute_ytd_returns yields current/base - 1 for every symbol whose
\* current price is present and whose base price is positive, and missing when
\* either price is missing or the base price is zero or negative.
C10_ReturnOrMissing ==
  pc = "done" =>
    \A c \in DOMAIN ytd_returns :
      IF /\ ~IsNaN(At(current_prices, c))
         /\ ~IsNaN(At(base_prices, c))
         /\ At(base_prices, c).n > 0
      THEN IsReturnOf(ytd_returns[c], At(current_prices, c), At(base_prices, c))
      ELSE IsNaN(ytd_returns[c])

\* the same without the bases that are zero or negative
C10_OnPositiveBase ==
  pc = "done" =>
    \A c \in DOMAIN ytd_returns :
      IF ~IsNaN(At(current_prices, c)) /\ ~IsNaN(At(base_prices, c))
      THEN At(base_prices, c).n > 0 =>
             IsReturnOf(ytd_returns[c], At(current_prices, c), At(base_prices, c))
      ELSE IsNaN(ytd_returns[c])

(***************************************************************************)
(* Claims about compute_relative_returns.                                  *)
(***************************************************************************)
\* r is the number a - b, missing when a is missing
IsDifference(r, a, b) ==
  IF IsNaN(a) THEN IsNaN(r)
  ELSE /\ r.kind = "num"
       /\ r.n * a.d * b.d = (a.n * b.d - b.n * a.d) * r.d

\* C11: compute_relative_returns returns the empty result set whenever the
\* benchmark's return is missing or the benchmark has no entry in the returns
\* map; otherwise it returns, for every symbol of the map, that symbol's return
\* minus the benchmark's return, and 0 for the benchmark itself.
C11_EmptyOrDifference ==
  pc = "done" =>
    IF Benchmark(tickers) \notin DOMAIN ytd_returns
         \/ IsNaN(At(ytd_returns, Benchmark(tickers)))
    THEN relative_returns = <<>>
    ELSE /\ DOMAIN relative_returns = DOMAIN ytd_returns
         /\ \A c \in DOMAIN ytd_returns :
              IsDifference(relative_returns[c], ytd_returns[c],
                           ytd_returns[Benchmark(tickers)])
         /\ relative_returns[Benchmark(tickers)] = Num(0)

\* a returns map whose benchmark return is missing while two other symbols
\* have a return
C11_Witness ==
  /\ pc = "done"
  /\ Benchmark(tickers) \in DOMAIN ytd_returns
  /\ IsNaN(ytd_returns[Benchmark(tickers)])
  /\ Cardinality({c \in DOMAIN ytd_returns : ~IsNaN(ytd_returns[c])}) >= 2
  /\ relative_returns = <<>>

(***************************************************************************)
(* Claims about compute_rolling_correlations.                              *)
(***************************************************************************)
\* the rows of the price table at which the period returns of both columns are
\* present: the prices of the row and of the row before it are all present
AlignedRows(df, b, c) ==
  {i \in 2..Len(df.rows) :
     /\ ~IsNaN(df.rows[i].v[b]) /\ ~IsNaN(df.rows[i - 1].v[b])
     /\ ~IsNaN(df.rows[i].v[c]) /\ ~IsNaN(df.rows[i - 1].v[c])}

\* the w latest of them
LatestAligned(df, b, c, w) ==
  {i \in AlignedRows(df, b, c) :
     Cardinality({j \in AlignedRows(df, b, c) : j > i}) < w}

\* the period returns of column c at the rows i and j are equal
SameReturn(df, c, i, j) ==
  df.rows[i].v[c].n * df.rows[j - 1].v[c].n = df.rows[j].v[c].n * df.rows[i - 1].v[c].n

\* column c has one and the same return at all the rows of S
ConstantOver(df, c, S) == \A i \in S : \A j \in S : SameReturn(df, c, i, j)

\* a number of [-1, 1]
InUnitInterval(r) == r.kind = "root" /\ r.sgn \in {-1, 0, 1} /\ r.n >= 0 /\ r.n <= r.d

\* the tickers of the result that have a column, given that the benchmark has
Computed ==
  IF pc = "done" /\ Benchmark(tickers) \in close_df.cols
  THEN {k \in DOMAIN corr_df : corr_df[k].Ticker \in close_df.cols}
  ELSE {}

\* C12 as stated: the result is missing when fewer than `window` timestamps
\* have both returns, and a number of [-1, 1] when at least `window` have.
C12_MissingOrNumeric ==
  \A k \in Computed :
    IF Cardinality(AlignedRows(close_df, Benchmark(tickers), corr_df[k].Ticker)) < window
    THEN IsNA(corr_df[k].Pearson)
    ELSE InUnitInterval(corr_df[k].Pearson)

\* C12 as amended: missing when fewer than `window` timestamps have both
\* returns; with at least `window`, missing when the benchmark's or the symbol's
\* returns at the `window` latest such timestamps are all equal, and a number of
\* [-1, 1] otherwise.
C12_NumericUnlessConstant ==
  \A k \in Computed :
    LET b == Benchmark(tickers)
        c == corr_df[k].Ticker
        S == LatestAligned(close_df, b, c, window)
    IN IF Cardinality(AlignedRows(close_df, b, c)) < window
       THEN IsNA(corr_df[k].Pearson)
       ELSE IF ConstantOver(close_df, b, S) \/ ConstantOver(close_df, c, S)
       THEN IsNA(corr_df[k].Pearson)
       ELSE InUnitInterval(corr_df[k].Pearson)

\* a symbol with exactly `window` aligned returns and a coefficient
C12_Witness ==
  \E k \in Computed :
    /\ Cardinality(AlignedRows(close_df, Benchmark(tickers), corr_df[k].Ticker)) = window
    /\ InUnitInterval(corr_df[k].Pearson)

\* the period return of column c at row i: (price - previous) / previous
ReturnOf(df, c, i) ==
  Ratio(df.rows[i].v[c].n * df.rows[i - 1].v[c].d - df.rows[i - 1].v[c].n * df.rows[i].v[c].d,
        df.rows[i - 1].v[c].n * df.rows[i].v[c].d)

\* the pairs of returns at the w latest timestamps at which both are present
LatestPairs(df, b, c, w) ==
  LET seq == SortedSeq(LatestAligned(df, b, c, w))
  IN [k \in DOMAIN seq |->
        [t |-> df.rows[seq[k]].t, x |-> ReturnOf(df, b, seq[k]), y |-> ReturnOf(df, c, seq[k])]]

\* C16: with at least `window` aligned pairs, the coefficient of a symbol is
\* the Pearson coefficient over exactly the `window` latest timestamps at which
\* both the symbol's and the benchmark's return are present: a timestamp with a
\* missing return is skipped for the next older aligned one, and neither the
\* last raw rows nor the full history are used.
C16_TrailingAlignedSlice ==
  \A k \in Computed :
    LET b == Benchmark(tickers)
        c == corr_df[k].Ticker
    IN Cardinality(AlignedRows(close_df, b, c)) >= window =>
         /\ Cardinality(LatestAligned(close_df, b, c, window)) = window
         /\ corr_df[k].Pearson = Pearson(LatestPairs(close_df, b, c, window))

\* a symbol with a coefficient, one of whose last `window` raw rows has a
\* missing return
C16_Witness ==
  \E k \in Computed :
    LET b == Benchmark(tickers)
        c == corr_df[k].Ticker
        n == Len(close_df.rows)
    IN /\ Cardinality(AlignedRows(close_df, b, c)) >= window
       /\ InUnitInterval(corr_df[k].Pearson)
       /\ \E i \in (n - window + 1)..n : i >= 2 /\ i \notin AlignedRows(close_df, b, c)

\* a symbol with more aligned pairs than the window holds, and a coefficient
C16_LongerHistory ==
  \E k \in Computed :
    /\ Cardinality(AlignedRows(close_df, Benchmark(tickers), corr_df[k].Ticker)) > window
    /\ InUnitInterval(corr_df[k].Pearson)

(***************************************************************************)
(* Claims about compute_mnav.                                              *)
(***************************************************************************)
\* the requested symbols
Requested == Range(Tail(tickers))

\* the rows of the output for symbol t
RowsOf(t) == {k \in DOMAIN mnav_df.rows : mnav_df.rows[k].Ticker = t}

\* symbol t has a holdings entry with coin_held and shares_outstanding present
\* and a current price that is not missing
HasReferenceData(t) ==
  /\ t \in DOMAIN holdings_data.tickers
  /\ holdings_data.tickers[t].coin_held.kind = "num"
  /\ holdings_data.tickers[t].shares_outstanding.kind = "num"
  /\ t \in DOMAIN current_prices
  /\ current_prices[t].kind = "num"

\* the same with coin_held and shares_outstanding different from 0
HasUsableReferenceData(t) ==
  /\ HasReferenceData(t)
  /\ holdings_data.tickers[t].coin_held.n # 0
  /\ holdings_data.tickers[t].shares_outstanding.n # 0

\* the coin price of the call: the override, else the snapshot's
CoinPriceInUse ==
  IF coin_price_override.kind = "num" /\ coin_price_override.n # 0
  THEN coin_price_override ELSE holdings_data.coin_price_usd

\* there is a coin price, and it is not 0
HasCoinPrice == CoinPriceInUse.kind = "num" /\ CoinPriceInUse.n # 0

\* C13 as stated: a record is emitted for a requested symbol exactly when the
\* symbol has a holdings entry with coin_held and shares_outstanding present and
\* a non-missing current price; every other symbol is omitted; the call returns.
C13_EmitsExactlyPresent ==
  pc = "done" =>
    /\ mnav_df.out = "returned"
    /\ \A t \in Requested :
         Cardinality(RowsOf(t)) = IF HasReferenceData(t) THEN 1 ELSE 0

\* C13 as amended: a record is emitted for a requested symbol exactly when a
\* coin price other than 0 is available (the override, else the snapshot's) and
\* the symbol has a holdings entry with coin_held and shares_outstanding present
\* and other than 0 and a non-missing current price; every other symbol is
\* omitted; the call returns.
C13_EmitsExactlyUsable ==
  pc = "done" =>
    /\ mnav_df.out = "returned"
    /\ \A k \in DOMAIN mnav_df.rows : mnav_df.rows[k].Ticker \in Requested
    /\ \A t \in Requested :
         Cardinality(RowsOf(t)) = IF HasCoinPrice /\ HasUsableReferenceData(t) THEN 1 ELSE 0

\* a call that emits a record for one symbol and omits another that has an
\* entry
C13_Witness ==
  /\ pc = "done"
  /\ \E t \in Requested : RowsOf(t) # {}
  /\ \E t \in Requested : t \in DOMAIN holdings_data.tickers /\ RowsOf(t) = {}

\* the number a value of the holdings file stands for: 0 when it is None
Amount(x) == IF x.kind = "num" THEN x.n ELSE 0

\* non-convertible debt of symbol t as the claim defines it
ExpectedNonConv(t) ==
  IF t \in DOMAIN holdings_config /\ holdings_config[t].convertible_debt.kind = "num"
  THEN LET diff == Amount(holdings_data.tickers[t].total_debt)
                     - holdings_config[t].convertible_debt.n
       IN IF diff > 0 THEN diff ELSE 0
  ELSE 0

\* coin_held * coin_price + cash - non_convertible_debt
ExpectedNav(t) ==
  holdings_data.tickers[t].coin_held.n * CoinPriceInUse.n
    + Amount(holdings_data.tickers[t].total_cash) - ExpectedNonConv(t)

\* C14: for every symbol included, mNAV is (shares_outstanding * price) /
\* (coin_held * coin_price + cash - non_convertible_debt) when the denominator is
\* positive and missing when it is zero or negative; non_convertible_debt is
\* max(0, total_debt - convertible_debt) under a configured override (0
\* included) and 0 without, never negative; no division by a denominator that
\* is not positive is performed.
C14_MnavFormula ==
  pc = "done" =>
    /\ \A k \in DOMAIN mnav_df.rows :
         LET row == mnav_df.rows[k]
             t == row.Ticker
             cap == holdings_data.tickers[t].shares_outstanding.n * current_prices[t].n
         IN /\ row.NonConvDebt = Num(ExpectedNonConv(t))
            /\ row.NonConvDebt.n >= 0
            /\ IF ExpectedNav(t) > 0
               THEN /\ row.mNAV.kind = "num"
                    /\ row.mNAV.n * ExpectedNav(t) = cap * row.mNAV.d
               ELSE IsNA(row.mNAV)
    /\ \A i \in DOMAIN mnav_divisions : mnav_divisions[i].n > 0
    /\ Len(mnav_divisions)
         = Cardinality({k \in DOMAIN mnav_df.rows : ExpectedNav(mnav_df.rows[k].Ticker) > 0})

\* a symbol with debt and a configured convertible_debt of 0, valued
C14_Witness ==
  /\ pc = "done"
  /\ \E k \in DOMAIN mnav_df.rows :
       LET t == mnav_df.rows[k].Ticker
       IN /\ t \in DOMAIN holdings_config
          /\ holdings_config[t].convertible_debt = Num(0)
          /\ Amount(holdings_data.tickers[t].total_debt) > 0
          /\ mnav_df.rows[k].mNAV.kind = "num"

\* a symbol whose denominator is negative
C14_NegativeNav ==
  /\ pc = "done"
  /\ \E k \in DOMAIN mnav_df.rows :
       ExpectedNav(mnav_df.rows[k].Ticker) < 0 /\ IsNA(mnav_df.rows[k].mNAV)

(***************************************************************************)
(* Claims about the accumulation file.                                     *)
(***************************************************************************)
\* C15: fetch_hourly_data treats the accumulation file as read-only: whatever
\* its fetch does (data, nothing, an error), a call leaves the content of the
\* file as it was, and every change of the file is made by a run of the
\* offline job that saved.
C15_StoreReadOnly ==
  [][/\ pc' = "fetch" => store' = store
     /\ store' # store => (pc' = "job" /\ job_out' = "saved")]_vars

\* a call of fetch_hourly_data has merged fresh rows with the rows of the file
\* into a frame that differs from the file
C15_Witness ==
  /\ pc = "fetch"
  /\ store.exists
  /\ hourly_out = "returned"
  /\ FreshPart # <<>>
  /\ combined.rows # store.df.rows

\* no label occurs twice in the index
NoRepeats(df) ==
  \A i \in DOMAIN df.rows : \A j \in DOMAIN df.rows :
    df.rows[i].t = df.rows[j].t => i = j

\* C17: across the runs of the offline job the file only grows in time: every
\* timestamp of the file before a run is in it after the run, the timestamps
\* are free of repeats after every run that merges into an existing file, and
\* a run whose fetch returns nothing leaves the file exactly as it was.
C17_StoreOnlyGrows ==
  [][pc' = "job" =>
       /\ store.exists => store'.exists
       /\ Index(store.df) \subseteq Index(store'.df)
       /\ (store.exists /\ job_out' = "saved") => NoRepeats(store'.df)
       /\ (job_raw'.kind = "table" /\ IsEmpty(job_raw'.df)) => store' = store]_vars

\* a run has merged its fetch into a file that held a timestamp the fetch does
\* not have
C17_Witness ==
  /\ pc = "job"
  /\ job_out = "saved"
  /\ Index(store.df) \ Index(job_raw.df) # {}
  /\ Index(job_raw.df) # {}

====
